---- MODULE Spec2Model ----
(***************************************************************************)
(* micromagneticdata: drives, combined drives, callbacks and caching.      *)
(*                                                                         *)
(* The file system is modelled by the number of table rows and snapshot    *)
(* files each drive directory holds.  The Python objects live in a heap, a *)
(* sequence of records referenced by index, because a CombinedDrive keeps  *)
(* references to its member Drive objects (self.drives = drives) and reads *)
(* them again whenever it is concatenated.  The program holds one variable *)
(* per drive directory (data[0], data[1]), a variable c that a             *)
(* concatenation binds and a variable p that register_callback binds.      *)
(***************************************************************************)
EXTENDS Integers, Sequences, FiniteSets, TLC

VARIABLES
    nrows,   \* nrows[d]: rows of the scalar table file in drive-d
    nfiles,  \* nfiles[d]: snapshot files (<name>*.omf) in drive-d
    heap,    \* the objects the program's variables hold
    res,     \* the outcome of the last operation: value returned or exception
    it,      \* the generator of the running "for field in drive" loop
    disk,    \* the run directory: its existence, the info.json of every drive
             \* directory and the drive directories holding <name>.out
    ra       \* the RingdownAnalysis object of the program

vars == <<nrows, nfiles, heap, res, it, disk, ra>>

---------------------------------------------------------------------------
(* Bounds of the model *)

\* most members of a combined drive
MaxMembers == 3
\* most rows / snapshot files the running simulation leaves in the live directory
MaxSteps == 2
\* most callbacks registered on one drive
MaxCallbacks == 2

---------------------------------------------------------------------------
(* The run directory: drive-0 holds an OOMMF TimeDriver run that is still  *)
(* being written, drive-1 a finished OOMMF MinDriver run (output_step) of  *)
(* which one snapshot file is missing.                                     *)

Dirs == {0, 1}
LiveDirs == {0}

\* further drive directories of the sample: drive-2 an OOMMF
\* HysteresisDriver run, drive-3 a RelaxDriver run, drive-4 a mumax3
\* MinDriver run
KindDirs == Dirs \cup {2, 3, 4}

\* the directories that programs open with md.Mumax3Drive
MumaxDirs == {4}

\* info.json "driver" of drive-d
Driver(d) ==
    IF d = 0 THEN "TimeDriver"
    ELSE IF d = 2 THEN "HysteresisDriver"
    ELSE IF d = 3 THEN "RelaxDriver"
    ELSE "MinDriver"

\* the columns of the table file of drive-d
Columns(d) ==
    IF d \in MumaxDirs THEN {"t", "mx"}
    ELSE IF Driver(d) = "TimeDriver" THEN {"t", "iteration", "mx"}
    ELSE IF Driver(d) = "HysteresisDriver" THEN {"B_hysteresis", "iteration", "mx"}
    ELSE IF Driver(d) = "RelaxDriver" THEN {"t", "mx"}
    ELSE {"iteration", "mx"}

\* sorted(glob.iglob(os.path.join(self.path, f"{self.name}*.omf")))
DiskFiles(d) == [k \in 1..nfiles[d] |-> <<d, k>>]

\* the rows of the table file, in file order
DiskRows(d) == [k \in 1..nrows[d] |-> <<d, k>>]

\* ut.Table.fromfile(path, x=x)
TableFromFile(d, x) == [x |-> x, rows |-> DiskRows(d), cols |-> Columns(d)]

EmptyTable == [x |-> "", rows |-> <<>>, cols |-> {}]

\* ubermagtable.Table.__lshift__: the operands must have the same x; the rows
\* of other follow the rows of self
TableLshift(t1, t2) ==
    IF t1.x # t2.x
    THEN [kind |-> "ValueError", table |-> EmptyTable]
    ELSE [kind |-> "ok",
          table |-> [x |-> t1.x, rows |-> t1.rows \o t2.rows, cols |-> t1.cols \cup t2.cols]]

\* the content of the info.json of a drive directory
InfoStates == {"available", "corrupt", "missing"}

\* the sample as the tests find it: the run directory exists, every drive
\* directory holds a well-formed info.json, the mumax3 drive directories
\* hold <name>.out
SampleDisk ==
    [root |-> TRUE,
     info |-> [d \in KindDirs |-> "available"],
     out |-> MumaxDirs]

\* RingdownAnalysis.__init__: no analysis has run
NoAnalysis ==
    [diff_xarr |-> <<>>, freq |-> <<>>, power_spa |-> <<>>, power_ave |-> <<>>,
     power_phase |-> <<>>, peaks |-> <<>>]

---------------------------------------------------------------------------
(* Objects *)

\* the value of a variable that holds no drive
NoneObj ==
    [cls |-> "NoneType", backend |-> "", dir |-> -1, x |-> "", use_cache |-> FALSE,
     cached_table |-> <<>>, cached_step_files |-> <<>>, callbacks |-> <<>>,
     drives |-> <<>>, table |-> EmptyTable]

IsObj(h, i) == i \in 1..Len(h)
\* isinstance(h[i], md.Drive)
IsDrive(h, i) == IsObj(h, i) /\ h[i].cls = "Drive"
\* isinstance(h[i], md.CombinedDrive)
IsCombined(h, i) == IsObj(h, i) /\ h[i].cls = "CombinedDrive"

\* self._callbacks = []
AbstractDriveInitEmpty(callbacks) == <<>>

\* AbstractDrive.__init__: self._callbacks = callbacks or []
AbstractDriveInit(callbacks) == callbacks

\* OOMMFDrive._step_files
OOMMFDriveStepFiles(o) == DiskFiles(o.dir)

\* OOMMFDrive.table
OOMMFDriveTable(o) == TableFromFile(o.dir, o.x)

\* the directory is searched on every access
DriveStepFilesUncached(o) == OOMMFDriveStepFiles(o)

\* Drive._step_files behind the per-instance cache: the cached list while
\* caching is enabled and a list has been cached, the directory otherwise
DriveStepFiles(o) ==
    IF o.use_cache /\ o.cached_step_files # <<>>
    THEN o.cached_step_files[1]
    ELSE OOMMFDriveStepFiles(o)

\* Drive.table behind the per-instance cache; the table selects the
\* configured independent variable
DriveTable(o) ==
    IF o.use_cache /\ o.cached_table # <<>>
    THEN [x |-> o.x, rows |-> o.cached_table[1], cols |-> Columns(o.dir)]
    ELSE OOMMFDriveTable(o)

\* the drive after its snapshot-file list was read: the list is kept when
\* caching is enabled
AfterStepFiles(o) ==
    IF o.use_cache THEN [o EXCEPT !.cached_step_files = <<DriveStepFiles(o)>>] ELSE o

\* the drive after its table was read
AfterTable(o) ==
    IF o.use_cache THEN [o EXCEPT !.cached_table = <<DriveTable(o).rows>>] ELSE o

\* self._x has been assigned
HasX(o) == o.x # "unset"

\* x=None selects "t" whatever the driver
DriveXSetterTime(o, value) ==
    IF value = "None" THEN [kind |-> "ok", x |-> "t"]
    ELSE IF ~HasX(o) THEN [kind |-> "AttributeError", x |-> o.x]
    ELSE IF value \in DriveTable(o).cols
         THEN [kind |-> "ok", x |-> value]
         ELSE [kind |-> "ValueError", x |-> o.x]

\* the value is assigned before the columns are looked up
DriveXSetterAssignFirst(o, value) ==
    IF value = "None"
    THEN IF Driver(o.dir) = "TimeDriver" THEN [kind |-> "ok", x |-> "t"]
         ELSE IF Driver(o.dir) = "MinDriver" THEN [kind |-> "ok", x |-> "iteration"]
         ELSE IF Driver(o.dir) = "HysteresisDriver" THEN [kind |-> "ok", x |-> "B_hysteresis"]
         ELSE [kind |-> "ok", x |-> o.x]
    ELSE IF ~HasX(o) THEN [kind |-> "AttributeError", x |-> o.x]
    ELSE IF value \in DriveTable(o).cols
         THEN [kind |-> "ok", x |-> value]
         ELSE [kind |-> "ValueError", x |-> value]

\* Drive.x setter; self.table reads self.x, which raises AttributeError
\* while self._x has not been assigned
DriveXSetter(o, value) ==
    IF value = "None"
    THEN IF Driver(o.dir) = "TimeDriver" THEN [kind |-> "ok", x |-> "t"]
         ELSE IF Driver(o.dir) = "MinDriver" THEN [kind |-> "ok", x |-> "iteration"]
         ELSE IF Driver(o.dir) = "HysteresisDriver" THEN [kind |-> "ok", x |-> "B_hysteresis"]
         ELSE [kind |-> "ok", x |-> o.x]
    ELSE IF ~HasX(o) THEN [kind |-> "AttributeError", x |-> o.x]
    ELSE IF value \in DriveTable(o).cols
         THEN [kind |-> "ok", x |-> value]
         ELSE [kind |-> "ValueError", x |-> o.x]

\* Mumax3Drive.x setter
Mumax3DriveXSetter(o, value) ==
    IF value = "None" THEN [kind |-> "ok", x |-> "t"]
    ELSE IF value \in DriveTable(o).cols
         THEN [kind |-> "ok", x |-> value]
         ELSE [kind |-> "ValueError", x |-> o.x]

\* drive.x = value on a single drive, by the class of the drive
XSetter(o, value) ==
    IF o.backend = "Mumax3Drive" THEN Mumax3DriveXSetter(o, value) ELSE DriveXSetter(o, value)

\* __init__(name, number, dirname, x=None) of the class backend on an
\* existing directory
DriveInitAs(backend, d, use_cache, callbacks) ==
    LET blank == [NoneObj EXCEPT !.cls = "Drive", !.backend = backend, !.dir = d,
                                 !.x = "unset",
                                 !.use_cache = use_cache,
                                 !.callbacks = AbstractDriveInit(callbacks)]
    IN  [blank EXCEPT !.x = XSetter(blank, "None").x]

\* the class programs open drive-d of the sample with
SampleBackend(d) == IF d \in MumaxDirs THEN "Mumax3Drive" ELSE "OOMMFDrive"

\* Drive.__init__(name, number, dirname, x=None) on an existing directory
DriveInit(d, use_cache, callbacks) ==
    DriveInitAs(SampleBackend(d), d, use_cache, callbacks)

\* CombinedDrive.info["driver"]: the driver of the first member
CombinedInfoDriver(h, o) == Driver(h[o.drives[1]].dir)

\* CombinedDrive.x setter
CombinedXSetter(h, o, value) ==
    IF value = "None"
    THEN IF CombinedInfoDriver(h, o) = "TimeDriver" THEN [kind |-> "ok", x |-> "t"]
         ELSE IF CombinedInfoDriver(h, o) = "MinDriver" THEN [kind |-> "ok", x |-> "iteration"]
         ELSE IF CombinedInfoDriver(h, o) = "HysteresisDriver"
              THEN [kind |-> "ok", x |-> "B_hysteresis"]
         ELSE [kind |-> "ok", x |-> o.x]
    ELSE IF value \in o.table.cols
         THEN [kind |-> "ok", x |-> value]
         ELSE [kind |-> "ValueError", x |-> o.x]

\* functools.reduce(operator.lshift, (drive.table for drive in drives)):
\* acc is the table of drives[1..k-1]; the generator reads one member table
\* per step and stops at the first exception
RECURSIVE ReduceTables(_, _, _, _)
ReduceTables(h, drives, k, acc) ==
    IF k > Len(drives)
    THEN [kind |-> "ok", table |-> acc, read |-> Len(drives)]
    ELSE IF ~HasX(h[drives[k]])
    THEN [kind |-> "AttributeError", table |-> EmptyTable, read |-> k - 1]
    ELSE LET r == TableLshift(acc, DriveTable(h[drives[k]]))
         IN  IF r.kind # "ok"
             THEN [kind |-> r.kind, table |-> EmptyTable, read |-> k]
             ELSE ReduceTables(h, drives, k + 1, r.table)

\* the heap after the tables of drives[1..n] were read
HeapAfterTables(h, drives, n) ==
    [i \in 1..Len(h) |->
        IF \E k \in 1..n : drives[k] = i THEN AfterTable(h[i]) ELSE h[i]]

\* a single drive is accepted as a combined drive
TooFewDrivesNone(drives) == Len(drives) < 1

\* if len(drives) < 2: raise ValueError
TooFewDrives(drives) == Len(drives) < 2

\* if not isinstance(drive, md.Drive): raise TypeError
NotAllDrives(h, drives) == \E k \in 1..Len(drives) : ~IsDrive(h, drives[k])

\* CombinedDrive.__init__(*drives): the exception raised, or the heap with
\* the new object appended; either way the heap as reading the member
\* tables leaves it
CombinedDriveInit(h, drives) ==
    IF TooFewDrives(drives)
    THEN [kind |-> "ValueError", heap |-> h]
    ELSE IF NotAllDrives(h, drives)
    THEN [kind |-> "TypeError", heap |-> h]
    ELSE IF ~HasX(h[drives[1]])
    THEN [kind |-> "AttributeError", heap |-> h]
    ELSE LET r == ReduceTables(h, drives, 2, DriveTable(h[drives[1]]))
             h2 == HeapAfterTables(h, drives, r.read)
             blank == [NoneObj EXCEPT !.cls = "CombinedDrive", !.x = "unset",
                                      !.callbacks = AbstractDriveInit(<<>>),
                                      !.drives = drives, !.table = r.table]
         IN  IF r.kind # "ok"
             THEN [kind |-> r.kind, heap |-> h2]
             ELSE [kind |-> "ok",
                   heap |-> Append(h2,
                       [blank EXCEPT !.x = CombinedXSetter(h2, blank, r.table.x).x])]

\* Drive.__lshift__(other)
DriveLshift(h, a, b) ==
    IF IsDrive(h, b) THEN CombinedDriveInit(h, <<a, b>>)
    ELSE IF IsCombined(h, b) THEN CombinedDriveInit(h, <<a>> \o h[b].drives)
    ELSE [kind |-> "TypeError", heap |-> h]

\* an operand that is no drive is ignored and the drive itself returned
CombinedLshiftLenient(h, a, b) ==
    IF IsDrive(h, b) THEN CombinedDriveInit(h, Append(h[a].drives, b))
    ELSE IF IsCombined(h, b) THEN CombinedDriveInit(h, h[a].drives \o h[b].drives)
    ELSE [kind |-> "ok", heap |-> Append(h, h[a])]

\* the other operand's members come first
CombinedLshiftSwapped(h, a, b) ==
    IF IsDrive(h, b) THEN CombinedDriveInit(h, <<b>> \o h[a].drives)
    ELSE IF IsCombined(h, b) THEN CombinedDriveInit(h, h[b].drives \o h[a].drives)
    ELSE [kind |-> "TypeError", heap |-> h]

\* CombinedDrive.__lshift__(other)
CombinedLshift(h, a, b) ==
    IF IsDrive(h, b) THEN CombinedDriveInit(h, Append(h[a].drives, b))
    ELSE IF IsCombined(h, b) THEN CombinedDriveInit(h, h[a].drives \o h[b].drives)
    ELSE [kind |-> "TypeError", heap |-> h]

\* a << b
LshiftOp(h, a, b) == IF IsCombined(h, a) THEN CombinedLshift(h, a, b) ELSE DriveLshift(h, a, b)

\* functools.reduce(operator.add, (drive._step_files for drive in self.drives))
RECURSIVE ReduceStepFiles(_, _, _)
ReduceStepFiles(h, drives, k) ==
    IF k > Len(drives) THEN <<>>
    ELSE DriveStepFiles(h[drives[k]]) \o ReduceStepFiles(h, drives, k + 1)

\* the snapshot files of a combined drive come from its first member only
CombinedStepFilesFirstOnly(h, o) == DriveStepFiles(h[o.drives[1]])

\* CombinedDrive._step_files, a functools.cached_property
CombinedStepFiles(h, o) ==
    IF o.cached_step_files # <<>> THEN o.cached_step_files[1]
    ELSE ReduceStepFiles(h, o.drives, 1)

\* drive._step_files
StepFiles(h, i) ==
    IF IsCombined(h, i) THEN CombinedStepFiles(h, h[i]) ELSE DriveStepFiles(h[i])

\* the heap after h[i]._step_files was read
HeapAfterStepFiles(h, i) ==
    IF IsCombined(h, i)
    THEN [j \in 1..Len(h) |->
            IF j = i THEN [h[i] EXCEPT !.cached_step_files = <<CombinedStepFiles(h, h[i])>>]
            ELSE IF h[i].cached_step_files = <<>> /\ \E k \in 1..Len(h[i].drives) : h[i].drives[k] = j
                 THEN AfterStepFiles(h[j])
                 ELSE h[j]]
    ELSE [h EXCEPT ![i] = AfterStepFiles(h[i])]

\* drive.table
Table(h, i) == IF IsCombined(h, i) THEN h[i].table ELSE DriveTable(h[i])

\* AbstractDrive.n: len(self.table.data)
N(h, i) == Len(Table(h, i).rows)

---------------------------------------------------------------------------
(* The state machine *)

NSlots == Cardinality(Dirs) + 2
\* the variable a concatenation binds
CVar == Cardinality(Dirs) + 1
\* the variable register_callback binds
PVar == Cardinality(Dirs) + 2
Slots == 1..NSlots

NoIter == [obj |-> 0, n |-> 0, i |-> 0, out |-> <<>>]

Result(op, kind) == [op |-> op, kind |-> kind, val |-> <<>>]

\* v = <operation>: the variable v is bound to the object the operation
\* appended to the heap; the object v held before is released
Bind(h, v) == [i \in Slots |-> IF i = v THEN h[Len(h)] ELSE h[i]]

Init ==
    /\ nrows = [d \in Dirs |-> IF d \in LiveDirs THEN 1 ELSE 2]
    /\ nfiles = [d \in Dirs |-> 1]
    /\ heap = [i \in Slots |->
                  IF i <= Cardinality(Dirs) THEN DriveInit(i - 1, FALSE, <<>>) ELSE NoneObj]
    /\ res = Result("init", "ok")
    /\ disk = SampleDisk
    /\ ra = NoAnalysis
    /\ it = NoIter

\* the simulation appends a row to the table of the live drive
AddRow(d) ==
    /\ nrows[d] < MaxSteps
    /\ nrows' = [nrows EXCEPT ![d] = @ + 1]
    /\ UNCHANGED <<disk, ra, nfiles, heap, res, it>>

\* the simulation writes the next snapshot file of the live drive
AddFile(d) ==
    /\ nfiles[d] < MaxSteps
    /\ nfiles' = [nfiles EXCEPT ![d] = @ + 1]
    /\ UNCHANGED <<disk, ra, nrows, heap, res, it>>

\* c = a << b
Lshift(a, b) ==
    LET out == LshiftOp(heap, a, b)
    IN  /\ it = NoIter
        /\ IsDrive(heap, a) \/ IsCombined(heap, a)
        /\ out.kind = "ok" => Len(out.heap[Len(out.heap)].drives) <= MaxMembers
        /\ heap' = IF out.kind = "ok" THEN Bind(out.heap, CVar) ELSE out.heap
        /\ res' = Result("lshift", out.kind)
        /\ UNCHANGED <<disk, ra, nrows, nfiles, it>>

\* c = CombinedDrive(*drives)
Construct(drives) ==
    LET out == CombinedDriveInit(heap, drives)
    IN  /\ it = NoIter
        /\ heap' = IF out.kind = "ok" THEN Bind(out.heap, CVar) ELSE out.heap
        /\ res' = Result("construct", out.kind)
        /\ UNCHANGED <<disk, ra, nrows, nfiles, it>>

\* drive.x = value
SetX(o, value) ==
    LET out == IF IsCombined(heap, o) THEN CombinedXSetter(heap, heap[o], value)
               ELSE XSetter(heap[o], value)
        read == IF IsDrive(heap, o) /\ value # "None" /\ HasX(heap[o]) THEN AfterTable(heap[o]) ELSE heap[o]
    IN  /\ it = NoIter
        /\ IsDrive(heap, o) \/ IsCombined(heap, o)
        /\ heap' = [heap EXCEPT ![o] = [read EXCEPT !.x = out.x]]
        /\ res' = Result("setx", out.kind)
        /\ UNCHANGED <<disk, ra, nrows, nfiles, it>>

\* drive._step_files
ReadStepFiles(o) ==
    /\ it = NoIter
    /\ IsDrive(heap, o) \/ IsCombined(heap, o)
    /\ heap' = HeapAfterStepFiles(heap, o)
    /\ res' = [op |-> "step_files", kind |-> "ok", val |-> StepFiles(heap, o)]
    /\ UNCHANGED <<disk, ra, nrows, nfiles, it>>

XValues == {"None", "mx", "wrong"}

\* the argument lists of a direct CombinedDrive(...) call: no argument, one
\* or two, each the value of a variable
ArgLists == {<<>>} \cup {<<a>> : a \in Slots} \cup {<<a, b>> : a \in Slots, b \in Slots}

NextConcat ==
    \/ \E d \in LiveDirs : AddRow(d)
    \/ \E a \in Slots, b \in Slots : Lshift(a, b)
    \/ \E drives \in ArgLists : Construct(drives)
    \/ \E o \in Slots, value \in XValues : SetX(o, value)

\* concatenation: drives are combined and their x reassigned while the
\* simulation keeps writing
SpecConcat == Init /\ [][NextConcat]_vars

---------------------------------------------------------------------------
(* Concatenation: C1 - C5 *)

\* the member sequence of an operand: a single drive counts as one member
Members(h, a) == IF IsCombined(h, a) THEN h[a].drives ELSE <<a>>

\* the rows the tables of the drives hold together
RECURSIVE SumRows(_, _)
SumRows(h, drives) ==
    IF drives = <<>> THEN 0
    ELSE Len(DriveTable(h[Head(drives)]).rows) + SumRows(h, Tail(drives))

\* the snapshot files the drives hold together
RECURSIVE SumFiles(_, _)
SumFiles(h, drives) ==
    IF drives = <<>> THEN 0
    ELSE Len(DriveStepFiles(h[Head(drives)])) + SumFiles(h, Tail(drives))

IsAnyDrive(h, a) == IsDrive(h, a) \/ IsCombined(h, a)

C2_Stated ==
    [][/\ \A a \in Slots, b \in Slots :
            (Lshift(a, b) /\ IsAnyDrive(heap, b) /\ heap[a].x # heap[b].x) =>
                res'.kind = "ValueError" /\ heap'[CVar] = heap[CVar]
       /\ \A drives \in ArgLists :
            (/\ Construct(drives)
             /\ Len(drives) = 2
             /\ IsDrive(heap, drives[1]) /\ IsDrive(heap, drives[2])
             /\ heap[drives[1]].x # heap[drives[2]].x) =>
                res'.kind = "ValueError" /\ heap'[CVar] = heap[CVar]]_vars

\* the operands of the failing concatenation exist: a combined drive whose x
\* was reassigned and a single drive, one of its members, with another x
C2_Reached ==
    /\ res.op = "setx" /\ res.kind = "ok"
    /\ IsCombined(heap, CVar)
    /\ \E k \in 1..Len(heap[CVar].drives) :
           heap[heap[CVar].drives[k]].x # heap[CVar].x

\* the flat sequence of the rows of the drives, in the order of the drives
RECURSIVE RowsInOrder(_, _)
RowsInOrder(h, drives) ==
    IF drives = <<>> THEN <<>>
    ELSE RowsInOrder(h, SubSeq(drives, 1, Len(drives) - 1))
           \o DriveTable(h[drives[Len(drives)]]).rows

\* the flat sequence of the files of the drives, in the order of the drives
RECURSIVE FilesInOrder(_, _)
FilesInOrder(h, drives) ==
    IF drives = <<>> THEN <<>>
    ELSE FilesInOrder(h, SubSeq(drives, 1, Len(drives) - 1))
           \o DriveStepFiles(h[drives[Len(drives)]])

\* the member sequence (a << b) << c and a << (b << c) evaluate to, as a
\* sequence of length 0 or 1 (empty when an exception is raised)
LeftFirst(h, a, b, c) ==
    LET ab == LshiftOp(h, a, b) IN
    IF ab.kind # "ok" THEN <<>>
    ELSE LET r == LshiftOp(ab.heap, Len(ab.heap), c) IN
         IF r.kind # "ok" THEN <<>> ELSE <<r.heap[Len(r.heap)]>>

RightFirst(h, a, b, c) ==
    LET bc == LshiftOp(h, b, c) IN
    IF bc.kind # "ok" THEN <<>>
    ELSE LET r == LshiftOp(bc.heap, a, Len(bc.heap)) IN
         IF r.kind # "ok" THEN <<>> ELSE <<r.heap[Len(r.heap)]>>

C3_Order ==
    \A a \in Slots, b \in Slots :
        (Lshift(a, b) /\ res'.kind = "ok") =>
            /\ heap'[CVar].drives = Members(heap, a) \o Members(heap, b)
            /\ Table(heap', CVar).rows = RowsInOrder(heap, heap'[CVar].drives)
            /\ StepFiles(heap', CVar) = FilesInOrder(heap, heap'[CVar].drives)

C3_Associative ==
    \A a \in Slots, b \in Slots, c \in Slots :
        (IsAnyDrive(heap, a) /\ IsAnyDrive(heap, b) /\ IsAnyDrive(heap, c)) =>
            LeftFirst(heap, a, b, c) = RightFirst(heap, a, b, c)

\* C3: the members of d1 << d2 are the members of d1 followed by the
\* members of d2 (a single drive counting as its one member), the table
\* rows and the snapshot files are those of the members in that order, and
\* (a << b) << c has the same members, table and files as a << (b << c)
C3_MemberOrder == [][C3_Order]_vars /\ []C3_Associative

\* a combined drive of two different members has been built by <<, and a
\* further concatenation with it is possible on either side
C3_Witness ==
    /\ res.op = "lshift" /\ res.kind = "ok"
    /\ IsCombined(heap, CVar)
    /\ Len(heap[CVar].drives) = 3
    /\ \E j \in 1..3, k \in 1..3 : heap[CVar].drives[j] # heap[CVar].drives[k]

\* every combined drive the program holds has two members or more, each a
\* single drive
C4_Flat ==
    \A i \in Slots :
        IsCombined(heap, i) =>
            /\ Len(heap[i].drives) >= 2
            /\ \A k \in 1..Len(heap[i].drives) : IsDrive(heap, heap[i].drives[k])

\* CombinedDrive(...) called with fewer than two drives raises ValueError
\* and binds nothing
C4_TooFew ==
    \A drives \in ArgLists :
        (Construct(drives) /\ Len(drives) < 2) =>
            res'.kind = "ValueError" /\ heap' = heap

\* C4: every combined drive has at least two members, all of them single
\* drives (combined operands are flattened), and constructing one from
\* fewer than two drives raises ValueError
C4_AtLeastTwoFlat == []C4_Flat /\ [][C4_TooFew]_vars

\* a combined drive built from a combined operand exists, and a construction
\* from fewer than two drives was the last operation
C4_Witness ==
    /\ res.op = "construct" /\ res.kind = "ValueError"
    /\ IsCombined(heap, CVar)
    /\ Len(heap[CVar].drives) = 3

\* C5 as stated: an operand that is no drive raises TypeError, by << on a
\* single or a combined drive and by CombinedDrive(...) with a member that
\* is no single drive
C5_Stated ==
    [][/\ \A a \in Slots, b \in Slots :
            (Lshift(a, b) /\ ~IsAnyDrive(heap, b)) => res'.kind = "TypeError"
       /\ \A drives \in ArgLists :
            (Construct(drives) /\ NotAllDrives(heap, drives)) =>
                res'.kind = "TypeError"]_vars

\* C5 amended: << with an operand that is no drive raises TypeError on a
\* single and on a combined drive, and CombinedDrive(...) with two or more
\* arguments of which one is no single drive raises TypeError; nothing is
\* bound
C5_TypeError ==
    [][/\ \A a \in Slots, b \in Slots :
            (Lshift(a, b) /\ ~IsAnyDrive(heap, b)) =>
                res'.kind = "TypeError" /\ heap' = heap
       /\ \A drives \in ArgLists :
            (/\ Construct(drives)
             /\ Len(drives) >= 2
             /\ \E k \in 1..Len(drives) : ~IsDrive(heap, drives[k])) =>
                res'.kind = "TypeError" /\ heap' = heap]_vars

\* a combined drive exists and an operation on it has raised TypeError
C5_Witness ==
    /\ res.kind = "TypeError"
    /\ IsCombined(heap, CVar)

---------------------------------------------------------------------------
(* Reading snapshots: indexing, iteration and callbacks *)

\* the callbacks a program registers one by one
Callbacks == {"f", "g"}
\* the composed callback lambda x: g(f(x))
Composed == "gf"

\* df.Field.from_file(filename=...): the decoded snapshot, with the calls
\* made on it so far
FieldFromFile(file) == [file |-> file, ops |-> <<>>]

\* callback(field)
Call(cb, field) ==
    IF cb = Composed THEN [field EXCEPT !.ops = @ \o <<"f", "g">>]
    ELSE [field EXCEPT !.ops = Append(@, cb)]

\* for callback in reversed(self._callbacks): field = callback(field)
RECURSIVE ApplyCallbacksReversed(_, _)
ApplyCallbacksReversed(callbacks, field) ==
    IF callbacks = <<>> THEN field
    ELSE ApplyCallbacksReversed(SubSeq(callbacks, 1, Len(callbacks) - 1),
                                Call(callbacks[Len(callbacks)], field))

\* AbstractDrive._apply_callbacks
RECURSIVE ApplyCallbacks(_, _)
ApplyCallbacks(callbacks, field) ==
    IF callbacks = <<>> THEN field
    ELSE ApplyCallbacks(Tail(callbacks), Call(Head(callbacks), field))

\* AbstractDrive.__getitem__(item) for an integer item: self._step_files[item]
\* raises IndexError outside -len .. len-1
GetItemOp(h, o, item) ==
    LET files == StepFiles(h, o)
        k == IF item < 0 THEN Len(files) + item + 1 ELSE item + 1
    IN  IF k \in 1..Len(files)
        THEN [kind |-> "ok", val |-> <<ApplyCallbacks(h[o].callbacks, FieldFromFile(files[k]))>>]
        ELSE [kind |-> "IndexError", val |-> <<>>]

\* AbstractDrive.__getitem__(item) for a slice item: self._step_files[item]
\* is a list, which df.Field.from_file does not accept as a file name
GetItemSliceOp(h, o, item) == [kind |-> "TypeError", val |-> <<>>]

\* the loop runs over range(self.n)
IterCountRows(h, o) == N(h, o)

\* AbstractDrive.__iter__: range(len(self._step_files))
IterCount(h, o) == Len(StepFiles(h, o))

\* drive.register_callback(callback): a new instance of the same class with
\* the callback appended to the callbacks of the drive
RegisterCallbackOp(h, o, cb) ==
    Append(h, [h[o] EXCEPT !.callbacks = AbstractDriveInit(h[o].callbacks \o <<cb>>),
                           !.cached_table = <<>>,
                           !.cached_step_files = <<>>])

\* the program of the reading scenario: the x of both drives was set to
\* "mx" and c = data[0] << data[1] built before the simulation went on
InitAccess ==
    LET h0 == [i \in Slots |->
                  IF i <= Cardinality(Dirs) THEN DriveInit(i - 1, FALSE, <<>>) ELSE NoneObj]
        h1 == [i \in Slots |->
                  IF IsDrive(h0, i) THEN [h0[i] EXCEPT !.x = DriveXSetter(h0[i], "mx").x]
                  ELSE h0[i]]
    IN  /\ nrows = [d \in Dirs |-> 2]
        /\ nfiles = [d \in Dirs |-> 1]
        /\ heap = Bind(LshiftOp(h1, 1, 2).heap, CVar)
        /\ res = Result("init", "ok")
        /\ disk = SampleDisk
        /\ ra = NoAnalysis
        /\ it = NoIter

\* p = o.register_callback(cb)
RegisterCallback(o, cb) ==
    /\ it = NoIter
    /\ IsDrive(heap, o) \/ IsCombined(heap, o)
    /\ Len(heap[o].callbacks) < MaxCallbacks
    /\ heap' = Bind(RegisterCallbackOp(heap, o, cb), PVar)
    /\ res' = Result("register_callback", "ok")
    /\ UNCHANGED <<disk, ra, nrows, nfiles, it>>

\* o[item] for an integer item
GetItem(o, item) ==
    LET out == GetItemOp(heap, o, item)
    IN  /\ it = NoIter
        /\ IsDrive(heap, o) \/ IsCombined(heap, o)
        /\ heap' = HeapAfterStepFiles(heap, o)
        /\ res' = [op |-> "getitem", kind |-> out.kind, val |-> out.val]
        /\ UNCHANGED <<disk, ra, nrows, nfiles, it>>

\* o[start:stop:step]
GetItemSlice(o, item) ==
    LET out == GetItemSliceOp(heap, o, item)
    IN  /\ it = NoIter
        /\ IsDrive(heap, o) \/ IsCombined(heap, o)
        /\ heap' = HeapAfterStepFiles(heap, o)
        /\ res' = [op |-> "getslice", kind |-> out.kind, val |-> out.val]
        /\ UNCHANGED <<disk, ra, nrows, nfiles, it>>

\* for field in o: the generator is created and runs to its first yield
\* or to its end; range(len(self._step_files)) is evaluated once
IterStart(o) ==
    /\ it = NoIter
    /\ IsDrive(heap, o) \/ IsCombined(heap, o)
    /\ it' = [obj |-> o, n |-> IterCount(heap, o), i |-> 0, out |-> <<>>]
    /\ heap' = HeapAfterStepFiles(heap, o)
    /\ UNCHANGED <<disk, ra, nrows, nfiles, res>>

\* yield self[i]
IterNext ==
    LET out == GetItemOp(heap, it.obj, it.i)
    IN  /\ it.obj # 0
        /\ it.i < it.n
        /\ heap' = HeapAfterStepFiles(heap, it.obj)
        /\ IF out.kind = "ok"
           THEN /\ it' = [it EXCEPT !.i = @ + 1, !.out = Append(@, out.val[1])]
                /\ res' = res
           ELSE /\ it' = NoIter
                /\ res' = [op |-> "iter", kind |-> out.kind, val |-> it.out]
        /\ UNCHANGED <<disk, ra, nrows, nfiles>>

\* the range is exhausted: the generator returns and the loop ends
IterStop ==
    /\ it.obj # 0
    /\ it.i >= it.n
    /\ it' = NoIter
    /\ res' = [op |-> "iter", kind |-> "ok", val |-> it.out]
    /\ UNCHANGED <<disk, ra, nrows, nfiles, heap>>

\* a slice bound: None or an integer
OptIndex == {<<>>, <<-1>>, <<1>>}
\* a slice step: None or a nonzero integer
OptStep == {<<>>, <<-1>>, <<2>>}
SliceItems == [start : OptIndex, stop : OptIndex, step : OptStep]
IntItems == (0 - MaxSteps - 1)..(MaxSteps + 1)

NextAccess ==
    \/ \E d \in LiveDirs : AddFile(d)
    \/ \E o \in Slots, cb \in Callbacks : RegisterCallback(o, cb)
    \/ \E o \in Slots, item \in IntItems : GetItem(o, item)
    \/ \E o \in Slots, item \in SliceItems : GetItemSlice(o, item)
    \/ \E o \in Slots : IterStart(o)
    \/ IterNext
    \/ IterStop

\* reading: snapshots are indexed, sliced and iterated, with and without
\* callbacks, while the simulation keeps writing snapshot files
SpecAccess == InitAccess /\ [][NextAccess]_vars

\* the for loop keeps asking the generator for the next snapshot
FairSpecAccess == SpecAccess /\ WF_vars(IterNext) /\ WF_vars(IterStop)

---------------------------------------------------------------------------
(* Reading: C6 - C9 *)

Max(a, b) == IF a > b THEN a ELSE b
Min(a, b) == IF a < b THEN a ELSE b

\* one bound of slice(start, stop, step).indices(n): v is the given bound
\* (None: <<>>), dflt the value None stands for
SliceBound(v, dflt, lower, upper, n) ==
    IF v = <<>> THEN dflt
    ELSE IF v[1] < 0 THEN Max(v[1] + n, lower) ELSE Min(v[1], upper)

\* len(range(*slice(start, stop, step).indices(n)))
SliceLen(item, n) ==
    LET step == IF item.step = <<>> THEN 1 ELSE item.step[1]
        lower == IF step < 0 THEN -1 ELSE 0
        upper == IF step < 0 THEN n - 1 ELSE n
        start == SliceBound(item.start, IF step < 0 THEN upper ELSE lower, lower, upper, n)
        stop == SliceBound(item.stop, IF step < 0 THEN lower ELSE upper, lower, upper, n)
    IN  IF step > 0
        THEN (IF start < stop THEN ((stop - start - 1) \div step) + 1 ELSE 0)
        ELSE (IF stop < start THEN ((start - stop - 1) \div (0 - step)) + 1 ELSE 0)

\* C6 as stated: d[a:b:c] yields a drive of the class of d with
\* len(range(*slice(a,b,c).indices(d.n))) snapshots and as many table rows
C6_Stated ==
    [][\A o \in Slots, item \in SliceItems :
        GetItemSlice(o, item) =>
            /\ res'.kind = "ok"
            /\ res'.val # <<>>
            /\ res'.val[1].cls = heap[o].cls
            /\ res'.val[1].n = SliceLen(item, N(heap, o))
            /\ res'.val[1].files = SliceLen(item, N(heap, o))]_vars

\* a drive has been sliced
C6_Reached == res.op = "getslice"

\* the snapshots, decoded and passed through the callbacks, of the first n
\* snapshot files of the drive
Decoded(h, o, n) ==
    [k \in 1..n |-> ApplyCallbacks(h[o].callbacks, FieldFromFile(StepFiles(h, o)[k]))]

\* a loop starts with the number of snapshot files of the drive as its
\* length, whatever the number of table rows
C7_Start ==
    \A o \in Slots :
        (it.obj = 0 /\ it'.obj = o /\ IterStart(o)) =>
            it'.n = Len(StepFiles(heap, o)) /\ it'.out = <<>>

\* each step of a loop yields the next snapshot in file order
C7_Next ==
    IterNext =>
        /\ it'.obj = it.obj /\ it'.n = it.n /\ it'.i = it.i + 1
        /\ it'.out = Decoded(heap', it.obj, it.i + 1)

\* a loop ends when it has yielded as many snapshots as there were files
\* when it started
C7_Stop == IterStop => Len(res'.val) = it.n /\ res'.val = Decoded(heap, it.obj, it.n)

RECURSIVE RegisterAll(_, _, _)
RegisterAll(h, o, cbs) ==
    IF cbs = <<>> THEN h
    ELSE LET h2 == RegisterCallbackOp(h, o, Head(cbs))
         IN  RegisterAll(h2, Len(h2), Tail(cbs))

CallbackLists == UNION {[1..k -> Callbacks] : k \in 0..MaxCallbacks}

\* p = o.register_callback(cb) binds p to a drive of the class of o with
\* the callbacks of o and then cb; o is as it was
C8_Step ==
    \A o \in Slots, cb \in Callbacks :
        (res'.op = "register_callback" /\ RegisterCallback(o, cb)) =>
            /\ heap'[PVar].cls = heap[o].cls
            /\ heap'[PVar].callbacks = Append(heap[o].callbacks, cb)
            /\ \A i \in Slots : i # PVar => heap'[i] = heap[i]

\* k registrations in a row on a drive without callbacks give a drive with
\* these k callbacks, and leave the drive without callbacks
C8_Chain ==
    \A o \in Slots, cbs \in CallbackLists :
        ((IsDrive(heap, o) \/ IsCombined(heap, o)) /\ heap[o].callbacks = <<>>) =>
            LET h2 == RegisterAll(heap, o, cbs)
                last == IF cbs = <<>> THEN o ELSE Len(h2)
            IN  /\ Len(h2[last].callbacks) = Len(cbs)
                /\ h2[last].callbacks = cbs
                /\ h2[last].cls = heap[o].cls
                /\ h2[o] = heap[o]

RECURSIVE CallsInOrder(_)
CallsInOrder(callbacks) ==
    IF callbacks = <<>> THEN <<>>
    ELSE CallsInOrder(SubSeq(callbacks, 1, Len(callbacks) - 1))
           \o (IF callbacks[Len(callbacks)] = Composed THEN <<"f", "g">>
               ELSE <<callbacks[Len(callbacks)]>>)

\* o[item] is the snapshot of the file at item, after f1, ..., fk
C9_GetItem ==
    \A o \in Slots, item \in IntItems :
        (/\ res'.op = "getitem" /\ res'.kind = "ok"
         /\ it' = NoIter /\ nfiles' = nfiles
         /\ GetItem(o, item)) =>
            /\ res'.val[1].ops = CallsInOrder(heap[o].callbacks)
            /\ res'.val[1].file
                  = StepFiles(heap, o)[IF item < 0 THEN Len(StepFiles(heap, o)) + item + 1
                                      ELSE item + 1]

\* every snapshot a loop yields went through f1, ..., fk
C9_Iter ==
    IterNext =>
        \A k \in 1..Len(it'.out) : it'.out[k].ops = CallsInOrder(heap[it.obj].callbacks)

\* registering f and then g gives the snapshots that registering the
\* composed function gives
C9_Composed ==
    \A o \in Slots, item \in IntItems :
        (IsDrive(heap, o) \/ IsCombined(heap, o)) =>
            LET fg == RegisterAll(heap, o, <<"f", "g">>)
                gf == RegisterAll(heap, o, <<Composed>>)
            IN  GetItemOp(fg, Len(fg), item) = GetItemOp(gf, Len(gf), item)

---------------------------------------------------------------------------
(* The per-instance cache *)

\* the cache outlives the switch
SetUseCacheKeep(o, value) == [o EXCEPT !.use_cache = value]

\* drive.use_cache = value: switching the cache off drops the cached table
\* and snapshot-file list
SetUseCacheOp(o, value) ==
    IF value THEN [o EXCEPT !.use_cache = TRUE]
    ELSE [o EXCEPT !.use_cache = FALSE, !.cached_table = <<>>, !.cached_step_files = <<>>]

\* the drives were constructed with use_cache=True or without
InitCache ==
    /\ nrows = [d \in Dirs |-> IF d \in LiveDirs THEN 1 ELSE 2]
    /\ nfiles = [d \in Dirs |-> 1]
    /\ \E uc \in [Dirs -> BOOLEAN] :
          heap = [i \in Slots |->
                     IF i <= Cardinality(Dirs) THEN DriveInit(i - 1, uc[i - 1], <<>>)
                     ELSE NoneObj]
    /\ res = Result("init", "ok")
    /\ disk = SampleDisk
    /\ ra = NoAnalysis
    /\ it = NoIter

\* o.use_cache = value
SetUseCache(o, value) ==
    /\ it = NoIter
    /\ IsDrive(heap, o)
    /\ heap' = [heap EXCEPT ![o] = SetUseCacheOp(heap[o], value)]
    /\ res' = [op |-> "use_cache", kind |-> "ok", val |-> <<o>>]
    /\ UNCHANGED <<disk, ra, nrows, nfiles, it>>

\* o.table
ReadTable(o) ==
    /\ it = NoIter
    /\ IsDrive(heap, o) \/ IsCombined(heap, o)
    /\ heap' = IF IsDrive(heap, o) THEN [heap EXCEPT ![o] = AfterTable(heap[o])] ELSE heap
    /\ res' = [op |-> "table", kind |-> "ok", val |-> Table(heap, o).rows]
    /\ UNCHANGED <<disk, ra, nrows, nfiles, it>>

NextCache ==
    \/ \E d \in LiveDirs : AddRow(d)
    \/ \E d \in LiveDirs : AddFile(d)
    \/ \E o \in Slots, value \in BOOLEAN : SetUseCache(o, value)
    \/ \E o \in Slots : ReadStepFiles(o)
    \/ \E o \in Slots : ReadTable(o)
    \/ \E o \in Slots, item \in IntItems : GetItem(o, item)

\* caching: the table and the snapshot files of drives are read with the
\* cache switched on and off while the simulation keeps writing
SpecCache == InitCache /\ [][NextCache]_vars

---------------------------------------------------------------------------
(* Caching: C10 *)

\* since use_cache was last set, the drive has not been read
JustSet(o) == res.op = "use_cache" /\ res.val = <<o>>

\* the drive holds neither a table nor a file list
Fresh(h, o) == h[o].cached_table = <<>> /\ h[o].cached_step_files = <<>>

\* when use_cache is set to False, and when it is set to True on a drive
\* that had it False, the drive holds no table and no file list afterwards
C10_Discard ==
    \A o \in Slots, value \in BOOLEAN :
        (SetUseCache(o, value) /\ (~value \/ ~heap[o].use_cache)) =>
            /\ heap'[o].use_cache = value
            /\ Fresh(heap', o)

\* the first read after use_cache was set returns what the directory holds
\* at the time of the read
C10_NextAccess ==
    /\ \A o \in Slots :
          (JustSet(o) /\ Fresh(heap, o) /\ ReadStepFiles(o)) => res'.val = DiskFiles(heap[o].dir)
    /\ \A o \in Slots :
          (JustSet(o) /\ Fresh(heap, o) /\ ReadTable(o)) => res'.val = DiskRows(heap[o].dir)
    /\ \A o \in Slots, item \in IntItems :
          (JustSet(o) /\ Fresh(heap, o) /\ GetItem(o, item) /\ item \in 0..(nfiles[heap[o].dir] - 1)) =>
              res'.kind = "ok" /\ res'.val[1].file = DiskFiles(heap[o].dir)[item + 1]

\* with use_cache False every read returns what the directory holds
C10_Disabled ==
    \A o \in Slots :
        (IsDrive(heap, o) /\ ~heap[o].use_cache) =>
            /\ (ReadStepFiles(o) => res'.val = DiskFiles(heap[o].dir) /\ heap'[o] = heap[o])
            /\ (ReadTable(o) => res'.val = DiskRows(heap[o].dir) /\ heap'[o] = heap[o])

---------------------------------------------------------------------------
(* Caching: C11 *)

\* a step that leaves use_cache True on a drive leaves the file list and
\* the table rows a read of the drive returns as they are, once they were
\* read
C11_Stable ==
    \A o \in Slots :
        (IsDrive(heap, o) /\ heap[o].use_cache /\ heap'[o].use_cache) =>
            /\ heap[o].cached_step_files # <<>> =>
                  DriveStepFiles(heap'[o]) = DriveStepFiles(heap[o])
            /\ heap[o].cached_table # <<>> =>
                  DriveTable(heap'[o]).rows = DriveTable(heap[o]).rows

\* a read with use_cache True keeps what it returns, and a later read
\* returns what was kept
C11_Read ==
    \A o \in Slots :
        (IsDrive(heap, o) /\ heap[o].use_cache) =>
            /\ (res'.op = "step_files" /\ ReadStepFiles(o)) =>
                  /\ res'.val = DriveStepFiles(heap'[o])
                  /\ heap[o].cached_step_files # <<>> =>
                        res'.val = heap[o].cached_step_files[1]
            /\ (res'.op = "table" /\ ReadTable(o)) =>
                  /\ res'.val = DriveTable(heap'[o]).rows
                  /\ heap[o].cached_table # <<>> => res'.val = heap[o].cached_table[1]

---------------------------------------------------------------------------
(* Slices: C12 *)

\* C12 as stated: every drive that slice access returns has use_cache True,
\* whatever the use_cache of the drive that was sliced
C12_Stated ==
    [][\A o \in Slots, item \in SliceItems :
        (res'.op = "getslice" /\ GetItemSlice(o, item)) =>
            /\ res'.kind = "ok"
            /\ res'.val # <<>>
            /\ res'.val[1].use_cache]_vars

\* slice access on a drive has raised an exception and returned no drive
C12_Reached == res.op = "getslice" /\ res.kind # "ok" /\ res.val = <<>>

---------------------------------------------------------------------------
(* The independent variable: C13 *)

\* C13 as stated: the table of every drive, single or combined, has the x
\* of the drive as its x at every point, also after x was assigned
C13_Stated ==
    \A i \in Slots :
        (IsDrive(heap, i) \/ IsCombined(heap, i)) => Table(heap, i).x = heap[i].x

\* a column of its table has been assigned to the x of a combined drive
C13_Reached ==
    /\ res.op = "setx" /\ res.kind = "ok"
    /\ IsCombined(heap, CVar)
    /\ heap[CVar].x = "mx"

---------------------------------------------------------------------------
(* Drives of every driver kind and backend *)

\* Drive.info: the content of info.json
DriveInfo(o) == [drive_number |-> o.dir, driver |-> Driver(o.dir)]

\* CombinedDrive.info
CombinedInfo(h, o) ==
    [drive_numbers |-> [k \in 1..Len(o.drives) |-> DriveInfo(h[o.drives[k]]).drive_number],
     driver |-> DriveInfo(h[o.drives[1]]).driver]

\* no drive of the sample has been opened
InitKinds ==
    /\ nrows = [d \in KindDirs |-> 1]
    /\ nfiles = [d \in KindDirs |-> 1]
    /\ heap = [i \in Slots |-> NoneObj]
    /\ res = Result("init", "ok")
    /\ disk = SampleDisk
    /\ ra = NoAnalysis
    /\ it = NoIter

\* v = md.Drive(name, d, dirname), md.Mumax3Drive(...) for a mumax3
\* directory, with the default x; the program opens two drives
Open(v, d) ==
    /\ it = NoIter
    /\ v \in 1..Cardinality(Dirs)
    /\ ~IsDrive(heap, v)
    /\ heap' = [heap EXCEPT ![v] = DriveInit(d, FALSE, <<>>)]
    /\ res' = Result("open", "ok")
    /\ UNCHANGED <<disk, ra, nrows, nfiles, it>>

\* o.info
ReadInfo(o) ==
    /\ it = NoIter
    /\ IsDrive(heap, o) \/ IsCombined(heap, o)
    /\ res' = [op |-> "info", kind |-> "ok",
               val |-> IF IsCombined(heap, o) THEN CombinedInfo(heap, heap[o])
                       ELSE DriveInfo(heap[o])]
    /\ UNCHANGED <<disk, ra, nrows, nfiles, heap, it>>

NextKinds ==
    \/ \E v \in Slots, d \in KindDirs : Open(v, d)
    \/ \E a \in Slots, b \in Slots : Lshift(a, b)
    \/ \E o \in Slots, value \in XValues : SetX(o, value)
    \/ \E o \in Slots : ReadInfo(o)

\* driver kinds: drives of all kinds are combined, their x assigned and
\* their info read
SpecKinds == InitKinds /\ [][NextKinds]_vars

---------------------------------------------------------------------------
(* The independent variable: C14 - C16 *)

KnownKinds == {"TimeDriver", "MinDriver", "HysteresisDriver"}

\* the column that stands for a driver kind
KindX(driver) ==
    IF driver = "TimeDriver" THEN "t"
    ELSE IF driver = "MinDriver" THEN "iteration"
    ELSE "B_hysteresis"

\* the driver kind the metadata of a drive declares
InfoDriver(h, i) ==
    IF IsCombined(h, i) THEN CombinedInfo(h, h[i]).driver ELSE DriveInfo(h[i]).driver

IsMumax(h, i) == IsDrive(h, i) /\ h[i].backend = "Mumax3Drive"

\* a drive constructed with x=None has the column of its driver kind as x
C14_StatedOpen ==
    \A v \in Slots, d \in KindDirs :
        (res'.op = "open" /\ Open(v, d) /\ Driver(d) \in KnownKinds) =>
            heap'[v].x = KindX(Driver(d))

\* drive.x = None selects the column of the driver kind of the drive
C14_StatedStep ==
    \A o \in Slots :
        (res'.op = "setx" /\ SetX(o, "None") /\ InfoDriver(heap, o) \in KnownKinds) =>
            heap'[o].x = KindX(InfoDriver(heap, o))

\* C14 as stated: with x=None the x of a drive is the column of the driver
\* kind of its metadata ('t', 'iteration', 'B_hysteresis'), for drives of
\* either backend and for combined drives
C14_Stated == [][C14_StatedOpen /\ C14_StatedStep]_vars

C14_Open ==
    \A v \in Slots, d \in KindDirs :
        (res'.op = "open" /\ Open(v, d)) =>
            /\ (d \notin MumaxDirs /\ Driver(d) \in KnownKinds) =>
                  heap'[v].x = KindX(Driver(d))
            /\ d \in MumaxDirs => heap'[v].x = "t"

C14_Step ==
    \A o \in Slots :
        (res'.op = "setx" /\ SetX(o, "None")) =>
            /\ res'.kind = "ok"
            /\ (~IsMumax(heap, o) /\ InfoDriver(heap, o) \in KnownKinds) =>
                  heap'[o].x = KindX(InfoDriver(heap, o))
            /\ IsMumax(heap, o) => heap'[o].x = "t"

\* C14 amended: with x=None the x of a drive read by md.Drive and of a
\* combined drive is the column of the driver kind of its metadata
\* ('t', 'iteration', 'B_hysteresis'; for a combined drive the kind of its
\* first member); the x of a mumax3 drive is 't' whatever its driver kind
C14_DefaultX == [][C14_Open /\ C14_Step]_vars

\* x = None has been assigned to a combined drive of mumax3 MinDriver
\* drives and to a drive of an OOMMF HysteresisDriver run
C14_Witness ==
    /\ res.op = "setx" /\ res.kind = "ok"
    /\ IsCombined(heap, CVar)
    /\ IsMumax(heap, heap[CVar].drives[1])
    /\ heap[CVar].x = "iteration"
    /\ \E i \in Slots : IsDrive(heap, i) /\ heap[i].x = "B_hysteresis"

\* C15 as stated: the x of every drive is defined and is a column of the
\* table of the drive, after construction and after every assignment to x,
\* whatever driver kind the metadata declares
C15_Stated ==
    \A i \in Slots :
        (IsDrive(heap, i) \/ IsCombined(heap, i)) =>
            HasX(heap[i]) /\ heap[i].x \in Table(heap, i).cols

\* a drive of a RelaxDriver run opened by md.Drive exists, and x has been
\* assigned to
C15_Reached ==
    /\ res.op = "setx"
    /\ \E i \in Slots : IsDrive(heap, i) /\ ~IsMumax(heap, i)
                          /\ InfoDriver(heap, i) = "RelaxDriver"

\* C16 as stated: drive.x = value raises ValueError when value is no column
\* of the table of the drive and is accepted when it is one, for single
\* drives of both backends and for combined drives
C16_Stated ==
    [][\A o \in Slots, value \in XValues \ {"None"} :
        (res'.op = "setx" /\ SetX(o, value)) =>
            IF value \in (IF IsCombined(heap, o) THEN heap[o].table.cols
                          ELSE Columns(heap[o].dir))
            THEN res'.kind = "ok" /\ heap'[o].x = value
            ELSE res'.kind = "ValueError" /\ heap'[o].x = heap[o].x]_vars

\* an assignment to x has raised another exception than ValueError
C16_Reached == res.op = "setx" /\ res.kind = "AttributeError"

---------------------------------------------------------------------------
(* Concatenation and metadata: C17, C18 *)

\* C17 as stated: the x of d1 << d2 is the x of d1 and its info['driver']
\* that of d1, d1 being a single or a combined drive in any state
C17_Stated ==
    [][\A a \in Slots, b \in Slots :
        (res'.op = "lshift" /\ res'.kind = "ok" /\ Lshift(a, b)) =>
            /\ heap'[CVar].x = heap[a].x
            /\ InfoDriver(heap', CVar) = InfoDriver(heap, a)]_vars

\* a combined drive has been extended by a third member
C17_Reached ==
    /\ res.op = "lshift" /\ res.kind = "ok"
    /\ IsCombined(heap, CVar)
    /\ Len(heap[CVar].drives) = 3
    /\ heap[CVar].x = "t"

\* every member of a combined drive declares the driver kind that the info
\* of the combined drive gives
C18_SharedKind ==
    \A i \in Slots :
        IsCombined(heap, i) =>
            \A k \in 1..Len(heap[i].drives) :
                InfoDriver(heap, heap[i].drives[k]) = InfoDriver(heap, i)

\* info gives the drive numbers of the members in member order
C18_Numbers ==
    \A o \in Slots :
        (res'.op = "info" /\ IsCombined(heap, o) /\ ReadInfo(o)) =>
            /\ Len(res'.val.drive_numbers) = Len(heap[o].drives)
            /\ \A k \in 1..Len(heap[o].drives) :
                  res'.val.drive_numbers[k] = heap[heap[o].drives[k]].dir
            /\ res'.val.driver = Driver(heap[heap[o].drives[1]].dir)

\* C18 as stated: CombinedDrive.info gives the drive numbers of the members
\* in member order and the driver kind that all members declare
C18_Stated == []C18_SharedKind /\ [][C18_Numbers]_vars

\* the info of a combined drive whose members declare different driver
\* kinds has been read
C18_Reached ==
    /\ res.op = "info"
    /\ IsCombined(heap, CVar)
    /\ \E j \in 1..Len(heap[CVar].drives), k \in 1..Len(heap[CVar].drives) :
           InfoDriver(heap, heap[CVar].drives[j]) # InfoDriver(heap, heap[CVar].drives[k])

---------------------------------------------------------------------------
(* The run collection: Data *)

\* the drive numbers a run directory of the sample may hold
DataDirs == {0, 1, 2, 3}

\* the Data object is no entry of the heap
DataObj == -1

\* the drive-N subdirectories of the run directory
DriveDirs(files) == DOMAIN files

\* Data.n: len(list(glob.iglob(os.path.join(self.path, "drive-*"))))
DataN(files) == Cardinality(DriveDirs(files))

\* range(n)[item] for an integer item
RangeIndex(n, item) ==
    IF item >= 0 /\ item < n THEN [kind |-> "ok", number |-> item]
    ELSE IF item < 0 /\ item >= -n THEN [kind |-> "ok", number |-> n + item]
    ELSE [kind |-> "IndexError", number |-> -1]

\* Data.__getitem__: md.Drive(name, number=range(self.n)[item], dirname);
\* Drive.__init__ raises IOError (reading info.json: FileNotFoundError, a
\* subclass) when drive-{number} does not exist
DataGetItemOp(files, item) ==
    LET r == RangeIndex(DataN(files), item)
    IN  IF r.kind # "ok" THEN r
        ELSE IF r.number \notin DriveDirs(files) THEN [kind |-> "IOError", number |-> r.number]
        ELSE r

\* the run directory of the sample holds drive-0 and drive-1; no drive has
\* been read
InitData ==
    /\ nrows = [d \in Dirs |-> 1]
    /\ nfiles = [d \in Dirs |-> 1]
    /\ heap = [i \in Slots |-> NoneObj]
    /\ res = Result("init", "ok")
    /\ disk = SampleDisk
    /\ ra = NoAnalysis
    /\ it = NoIter

\* a drive directory appears in the run directory (a simulation is driven or
\* a drive is copied in)
MkDir(d) ==
    /\ it = NoIter
    /\ d \notin DriveDirs(nfiles)
    /\ nfiles' = [e \in DriveDirs(nfiles) \cup {d} |-> 1]
    /\ nrows' = [e \in DriveDirs(nfiles) \cup {d} |-> 1]
    /\ UNCHANGED <<disk, ra, heap, res, it>>

\* a drive directory is deleted from the run directory
RmDir(d) ==
    /\ it = NoIter
    /\ d \in DriveDirs(nfiles)
    /\ nfiles' = [e \in DriveDirs(nfiles) \ {d} |-> 1]
    /\ nrows' = [e \in DriveDirs(nfiles) \ {d} |-> 1]
    /\ UNCHANGED <<disk, ra, heap, res, it>>

\* p = data[item]
DataGetItem(item) ==
    LET out == DataGetItemOp(nfiles, item)
    IN  /\ it = NoIter
        /\ res' = [op |-> "datagetitem", kind |-> out.kind,
                   val |-> IF out.kind = "ok" THEN <<out.number>> ELSE <<>>]
        /\ heap' = IF out.kind = "ok"
                   THEN [heap EXCEPT ![PVar] = DriveInit(out.number, FALSE, <<>>)]
                   ELSE heap
        /\ UNCHANGED <<disk, ra, nrows, nfiles, it>>

\* iter(data): for i in range(self.n)
DataIterStart ==
    /\ it = NoIter
    /\ it' = [obj |-> DataObj, n |-> DataN(nfiles), i |-> 0, out |-> <<>>]
    /\ UNCHANGED <<disk, ra, nrows, nfiles, heap, res>>

\* yield self[i]
DataIterNext ==
    LET out == DataGetItemOp(nfiles, it.i)
    IN  /\ it.obj = DataObj
        /\ it.i < it.n
        /\ IF out.kind = "ok"
           THEN /\ it' = [it EXCEPT !.i = @ + 1, !.out = Append(@, out.number)]
                /\ res' = res
           ELSE /\ it' = NoIter
                /\ res' = [op |-> "dataiter", kind |-> out.kind, val |-> it.out]
        /\ UNCHANGED <<disk, ra, nrows, nfiles, heap>>

\* the loop of Data.__iter__ ends
DataIterStop ==
    /\ it.obj = DataObj
    /\ it.i >= it.n
    /\ it' = NoIter
    /\ res' = [op |-> "dataiter", kind |-> "ok", val |-> it.out]
    /\ UNCHANGED <<disk, ra, nrows, nfiles, heap>>

\* the integers a program indexes the run collection with
DataItems == -(Cardinality(DataDirs) + 1)..(Cardinality(DataDirs) + 1)

NextData ==
    \/ \E d \in DataDirs : MkDir(d)
    \/ \E d \in DataDirs : RmDir(d)
    \/ \E item \in DataItems : DataGetItem(item)
    \/ DataIterStart
    \/ DataIterNext
    \/ DataIterStop

\* run collection: drive directories come and go, the collection is indexed
\* and iterated
SpecData == InitData /\ [][NextData]_vars

---------------------------------------------------------------------------
(* Indexing the run collection: C19, C20 *)

\* the drive numbers 0 .. n-1 are all present
Dense(files) == DriveDirs(files) = 0..(DataN(files) - 1)

RECURSIVE SortedSeq(_)
\* the members of a set of integers in ascending order
SortedSeq(S) ==
    IF S = {} THEN <<>>
    ELSE LET m == CHOOSE e \in S : \A f \in S : e <= f
         IN  <<m>> \o SortedSeq(S \ {m})

\* C19 as stated: with n drives, run[i] returns a drive for -n <= i < n,
\* run[i] and run[-(n-i)] return the drive of the same number for
\* 0 <= i < n, and every other integer index raises IndexError
C19_Stated ==
    [][\A item \in DataItems :
        (res'.op = "datagetitem" /\ DataGetItem(item)) =>
            LET n == DataN(nfiles)
            IN  IF item >= -n /\ item < n
                THEN /\ res'.kind = "ok"
                     /\ IsDrive(heap', PVar)
                     /\ heap'[PVar].dir = res'.val[1]
                     /\ item >= 0 =>
                           DataGetItemOp(nfiles, item - n) = DataGetItemOp(nfiles, item)
                ELSE res'.kind = "IndexError"]_vars

\* a negative index has been resolved in a directory whose drive numbers
\* have a gap
C19_Reached ==
    /\ res.op = "datagetitem" /\ res.kind = "ok"
    /\ ~Dense(nfiles)
    /\ res.val[1] = DataN(nfiles) - 1

\* every index below Data.n resolves to a drive directory that exists
C20_Index ==
    \A item \in DataItems :
        (res'.op = "datagetitem" /\ DataGetItem(item)
            /\ item >= 0 /\ item < DataN(nfiles)) =>
            /\ res'.kind = "ok"
            /\ res'.val[1] \in DriveDirs(nfiles)

\* an iteration yields the drives present, in the order of their numbers
C20_Iter ==
    (res'.op = "dataiter" /\ (DataIterNext \/ DataIterStop) /\ it' = NoIter) =>
        /\ res'.kind = "ok"
        /\ res'.val = SortedSeq(DriveDirs(nfiles))

\* C20 as stated: in a run directory whose drive numbers have gaps every
\* index 0 <= i < Data.n resolves to a drive directory that exists, and
\* iterating Data yields exactly the drives present, ordered by number
C20_Stated == [][C20_Index /\ C20_Iter]_vars

\* an iteration over a directory whose drive numbers have a gap has ended
C20_Reached ==
    /\ res.op = "dataiter"
    /\ ~Dense(nfiles)
    /\ DataN(nfiles) >= 2

---------------------------------------------------------------------------
(* Metadata files and construction on missing directories *)

\* the values given for x at construction
XArgs == {"None", "mx"}

\* Drive.__init__(name, number, dirname, x): self.x = x comes first; with
\* x=None the setter opens info.json (FileNotFoundError when the file or the
\* directory is absent, JSONDecodeError when it does not parse), with a
\* column name it evaluates self.table, which reads self.x before self._x
\* has been assigned (AttributeError); then the directory is checked
\* (IOError)
DriveInitOp(files, dsk, number, x) ==
    IF x = "None"
    THEN IF number \notin DriveDirs(files) \/ dsk.info[number] = "missing"
         THEN [kind |-> "FileNotFoundError"]
         ELSE IF dsk.info[number] = "corrupt" THEN [kind |-> "JSONDecodeError"]
         ELSE [kind |-> "ok"]
    ELSE [kind |-> "AttributeError"]

\* drive.drive_path: the directory of the drive
DrivePath(number) == number

\* one record of Data.info: drive = self[i], then info.json of
\* drive.drive_path is loaded
InfoRecord(files, dsk, i) ==
    LET drive == DriveInitOp(files, dsk, i, "None")
    IN  IF drive.kind = "FileNotFoundError"
        THEN [drive_number |-> i, status |-> "missing"]
        ELSE IF drive.kind = "JSONDecodeError"
        THEN [drive_number |-> i, status |-> "corrupt"]
        ELSE [drive_number |-> DrivePath(i), status |-> dsk.info[DrivePath(i)]]

\* Data.info: for i in range(self.n), one record each
DataInfoOp(files, dsk) ==
    [kind |-> "ok",
     records |-> [k \in 1..DataN(files) |-> InfoRecord(files, dsk, k - 1)]]

\* data.info
DataInfo ==
    LET out == DataInfoOp(nfiles, disk)
    IN  /\ it = NoIter
        /\ res' = [op |-> "datainfo", kind |-> out.kind, val |-> out.records]
        /\ UNCHANGED <<nrows, nfiles, heap, it, disk, ra>>

\* the info.json of drive-d is written, damaged or deleted
WriteInfo(d, s) ==
    /\ it = NoIter
    /\ d \in DriveDirs(nfiles)
    /\ disk.info[d] # s
    /\ disk' = [disk EXCEPT !.info[d] = s]
    /\ UNCHANGED <<nrows, nfiles, heap, res, it, ra>>

\* the drive numbers of the run directory whose metadata is listed
InfoDirs == {0, 1, 2}

NextInfo ==
    \/ \E d \in InfoDirs : MkDir(d)
    \/ \E d \in InfoDirs : RmDir(d)
    \/ \E d \in InfoDirs, s \in InfoStates : WriteInfo(d, s)
    \/ DataInfo

\* metadata listing: drive directories come and go, their info.json is
\* written, damaged and deleted, Data.info is read
SpecInfo == InitData /\ [][NextInfo]_vars

---------------------------------------------------------------------------
(* The metadata listing: C21 *)

\* C21 as stated: Data.info does not raise and returns one record per drive
\* in the order of the drive numbers, with the status 'missing', 'corrupt'
\* or 'available' of the info.json of that drive
C21_Stated ==
    [][(res'.op = "datainfo" /\ DataInfo) =>
          LET present == SortedSeq(DriveDirs(nfiles))
          IN  /\ res'.kind = "ok"
              /\ Len(res'.val) = Len(present)
              /\ \A k \in 1..Len(present) :
                    /\ res'.val[k].drive_number = present[k]
                    /\ res'.val[k].status = disk.info[present[k]]]_vars

\* the listing of a directory with a gap in the drive numbers, holding a
\* drive with a corrupt and a drive with a well-formed info.json, has been
\* read
C21_Reached ==
    /\ res.op = "datainfo"
    /\ ~Dense(nfiles)
    /\ Len(res.val) = 2
    /\ \E d \in DriveDirs(nfiles), e \in DriveDirs(nfiles) :
           disk.info[d] = "corrupt" /\ disk.info[e] = "available"

---------------------------------------------------------------------------
(* Construction on directories that do not exist: C22 *)

\* the ways of naming the run directory: Data(path=p), Data(name=n,
\* dirname=d), Data(name=n, path=p), Data()
DataArgs == {"path", "name", "name+path", "none"}

\* Data.__init__
DataInitOp(root, args) ==
    IF args = "name+path" \/ args = "none" THEN [kind |-> "TypeError"]
    ELSE IF ~root THEN [kind |-> "OSError"]
    ELSE [kind |-> "ok"]

\* the drive directories that can be opened: those of the run directory, if
\* it exists
Reachable(files, dsk) == IF dsk.root THEN files ELSE [d \in {} |-> 1]

\* the exceptions that are OSError (IOError is OSError, FileNotFoundError a
\* subclass)
IOErrors == {"OSError", "IOError", "FileNotFoundError"}

\* the run directory is moved away or put back
MoveRoot ==
    /\ it = NoIter
    /\ disk' = [disk EXCEPT !.root = ~@]
    /\ UNCHANGED <<nrows, nfiles, heap, res, it, ra>>

\* data = md.Data(...)
DataInit(args) ==
    /\ it = NoIter
    /\ res' = [op |-> "datainit", kind |-> DataInitOp(disk.root, args).kind, val |-> <<args>>]
    /\ UNCHANGED <<nrows, nfiles, heap, it, disk, ra>>

\* p = md.Drive(name, number, dirname, x)
DriveConstruct(number, x) ==
    LET out == DriveInitOp(Reachable(nfiles, disk), disk, number, x)
    IN  /\ it = NoIter
        /\ res' = [op |-> "driveinit", kind |-> out.kind, val |-> <<number>>]
        /\ heap' = IF out.kind = "ok"
                   THEN [heap EXCEPT ![PVar] = DriveInit(number, FALSE, <<>>)]
                   ELSE heap
        /\ UNCHANGED <<nrows, nfiles, it, disk, ra>>

NextInit ==
    \/ \E d \in InfoDirs : MkDir(d)
    \/ \E d \in InfoDirs : RmDir(d)
    \/ \E d \in InfoDirs, s \in InfoStates : WriteInfo(d, s)
    \/ MoveRoot
    \/ \E args \in DataArgs : DataInit(args)
    \/ \E number \in InfoDirs, x \in XArgs : DriveConstruct(number, x)

\* construction: Data and Drive objects are constructed on directories that
\* exist or do not
SpecInit == InitData /\ [][NextInit]_vars

\* Data on a run directory that does not exist raises OSError
C22_Data ==
    \A args \in DataArgs :
        (res'.op = "datainit" /\ DataInit(args) /\ ~disk.root) =>
            res'.kind \in IOErrors

\* Drive on a drive directory that does not exist raises OSError
C22_Drive ==
    \A number \in InfoDirs, x \in XArgs :
        (res'.op = "driveinit" /\ DriveConstruct(number, x)
            /\ number \notin DriveDirs(Reachable(nfiles, disk))) =>
            res'.kind \in IOErrors

\* C22 as stated: constructing a Data on a run directory that does not
\* exist, or a Drive on a drive directory that does not exist, raises an
\* I/O error, whichever of the arguments name, dirname, path, x are used
C22_Stated == [][C22_Data /\ C22_Drive]_vars

\* a Drive has been constructed with a column name for x on a drive
\* directory that does not exist
C22_Reached ==
    /\ res.op = "driveinit"
    /\ res.kind = "AttributeError"
    /\ res.val[1] \notin DriveDirs(Reachable(nfiles, disk))

---------------------------------------------------------------------------
(* The backend of a drive: C23 *)

\* the drive directories of the scenario: drive-0 written by OOMMF, drive-4
\* by mumax3
BackendDirs == {0, 4}

\* every directory gives the OOMMF variant
DriveNewOOMMF(dsk, d) == DriveInitAs("OOMMFDrive", d, FALSE, <<>>)

\* md.Drive(name, number, dirname) selects the class: Mumax3Drive when the
\* drive directory holds <name>.out, OOMMFDrive otherwise
DriveNew(dsk, d) ==
    DriveInitAs(IF d \in dsk.out THEN "Mumax3Drive" ELSE "OOMMFDrive", d, FALSE, <<>>)

\* Mumax3Drive.__init__ raises IOError when <name>.out does not exist
Mumax3DriveInit(dsk, d) ==
    IF d \notin dsk.out THEN [kind |-> "IOError", obj |-> NoneObj]
    ELSE [kind |-> "ok", obj |-> DriveInitAs("Mumax3Drive", d, FALSE, <<>>)]

\* <name>.out appears in drive-d or is removed from it
ToggleOut(d) ==
    /\ it = NoIter
    /\ disk' = [disk EXCEPT !.out = IF d \in @ THEN @ \ {d} ELSE @ \cup {d}]
    /\ UNCHANGED <<nrows, nfiles, heap, res, it, ra>>

\* v = md.Drive(name, d, dirname)
NewDrive(v, d) ==
    /\ it = NoIter
    /\ v \in 1..Cardinality(Dirs)
    /\ heap' = [heap EXCEPT ![v] = DriveNew(disk, d)]
    /\ res' = [op |-> "new", kind |-> "ok", val |-> <<v>>]
    /\ UNCHANGED <<nrows, nfiles, it, disk, ra>>

\* v = md.Mumax3Drive(name, d, dirname)
NewMumax3Drive(v, d) ==
    LET out == Mumax3DriveInit(disk, d)
    IN  /\ it = NoIter
        /\ v \in 1..Cardinality(Dirs)
        /\ heap' = IF out.kind = "ok" THEN [heap EXCEPT ![v] = out.obj] ELSE heap
        /\ res' = [op |-> "newmumax", kind |-> out.kind, val |-> <<v>>]
        /\ UNCHANGED <<nrows, nfiles, it, disk, ra>>

\* the variable the scenario opens drives into, the callback it registers
\* and the slices it takes
BackendVars == {1}
BackendCallbacks == {"f"}
BackendSlices == {item \in SliceItems : item.start = <<>> /\ item.step = <<>>}

NextBackend ==
    \/ \E d \in BackendDirs : ToggleOut(d)
    \/ \E v \in BackendVars, d \in BackendDirs : NewDrive(v, d)
    \/ \E v \in BackendVars, d \in BackendDirs : NewMumax3Drive(v, d)
    \/ \E o \in Slots, value \in XValues : SetX(o, value)
    \/ \E o \in Slots, cb \in BackendCallbacks : RegisterCallback(o, cb)
    \/ \E o \in Slots, item \in BackendSlices : GetItemSlice(o, item)

\* backends: drives are opened while <name>.out directories come and go,
\* and are used and derived from
SpecBackend == InitKinds /\ [][NextBackend]_vars

\* the variant the directory of a drive would give now
VariantOf(dsk, d) == IF d \in dsk.out THEN "Mumax3Drive" ELSE "OOMMFDrive"

\* the step binds the variable i to a new object
Rebound(i) ==
    \/ \E d \in BackendDirs : NewDrive(i, d) \/ NewMumax3Drive(i, d)
    \/ i = PVar /\ \E o \in Slots, cb \in BackendCallbacks : RegisterCallback(o, cb)

\* md.Drive gives the Mumax3 variant when <name>.out is present and the
\* OOMMF variant when it is absent
C23_Decided ==
    \A v \in Slots, d \in BackendDirs :
        (res'.op = "new" /\ NewDrive(v, d)) => heap'[v].backend = VariantOf(disk, d)

\* no step changes the variant of a drive
C23_Kept ==
    \A i \in Slots :
        (IsDrive(heap, i) /\ heap'[i] # heap[i] /\ ~Rebound(i)) =>
            IsDrive(heap', i) /\ heap'[i].backend = heap[i].backend

\* a drive derived by register_callback has the variant of the drive it is
\* derived from; slicing derives no drive
C23_Derived ==
    /\ \A o \in Slots, cb \in BackendCallbacks :
          (res'.op = "register_callback" /\ IsDrive(heap, o) /\ RegisterCallback(o, cb)) =>
              IsDrive(heap', PVar) /\ heap'[PVar].backend = heap[o].backend
    /\ \A o \in Slots, item \in BackendSlices :
          (res'.op = "getslice" /\ IsDrive(heap, o) /\ GetItemSlice(o, item)) =>
              \A i \in Slots : IsDrive(heap', i) =>
                  IsDrive(heap, i) /\ heap'[i].backend = heap[i].backend

---------------------------------------------------------------------------
(* Export to xarray *)

\* the dimensions of the array of one snapshot
FieldDims == <<"x", "y", "z", "vdims">>

\* Field.to_xarray: the array of one decoded snapshot, without a leading
\* axis, with the attributes of the field
FieldToXarray(field) ==
    [dims |-> FieldDims, coords |-> <<>>, data |-> <<field>>, attrs |-> {"field"}]

\* darray.assign_attrs(**self.info)
AssignInfo(darray) == [darray EXCEPT !.attrs = @ \cup {"info"}]

NoArray == [dims |-> <<>>, coords |-> <<>>, data |-> <<>>, attrs |-> {}]

\* what np.empty leaves in an entry that is never written
JunkFields == {[file |-> <<-1, j>>, ops |-> <<>>] : j \in {0, 1}}

\* the snapshots are stacked whatever their number
DriveToXarrayStacked(h, o) ==
    LET files == StepFiles(h, o)
        table == Table(h, o)
    IN  IF Len(files) = 0 \/ Len(files) # Len(table.rows)
        THEN [kind |-> "ValueError", array |-> NoArray]
        ELSE [kind |-> "ok",
              array |-> AssignInfo(
                  [dims |-> <<table.x>> \o FieldDims,
                   coords |-> table.rows,
                   data |-> [k \in 1..Len(files) |-> GetItemOp(h, o, k - 1).val[1]],
                   attrs |-> {"field"}])]

\* Drive.to_xarray: one snapshot file gives self[0].to_xarray(); otherwise
\* xr.concat of the arrays of all snapshots along the x column of the
\* table, which raises ValueError when there is nothing to concatenate or
\* the column has another length than the list of arrays
DriveToXarray(h, o) ==
    LET files == StepFiles(h, o)
        table == Table(h, o)
    IN  IF Len(files) = 1
        THEN [kind |-> "ok", array |-> AssignInfo(FieldToXarray(GetItemOp(h, o, 0).val[1]))]
        ELSE IF Len(files) = 0 \/ Len(files) # Len(table.rows)
        THEN [kind |-> "ValueError", array |-> NoArray]
        ELSE [kind |-> "ok",
              array |-> AssignInfo(
                  [dims |-> <<table.x>> \o FieldDims,
                   coords |-> table.rows,
                   data |-> [k \in 1..Len(files) |-> GetItemOp(h, o, k - 1).val[1]],
                   attrs |-> {"field"}])]

\* AbstractDrive.to_xarray: one snapshot file gives self[0].to_xarray();
\* otherwise np.empty((self.n, ...)) is filled by "for i, field in
\* enumerate(self): array[i] = field.array" (IndexError beyond self.n rows,
\* entries beyond the snapshot files are never written) and wrapped in a new
\* xr.DataArray; the result of darray.assign_attrs(**field_0.attrs) is dropped
AbstractToXarray(h, o, junk) ==
    LET files == StepFiles(h, o)
        table == Table(h, o)
    IN  IF Len(files) = 1
        THEN [kind |-> "ok", array |-> AssignInfo(FieldToXarray(GetItemOp(h, o, 0).val[1]))]
        ELSE IF Len(files) = 0 \/ Len(files) > Len(table.rows)
        THEN [kind |-> "IndexError", array |-> NoArray]
        ELSE [kind |-> "ok",
              array |-> AssignInfo(
                  [dims |-> <<table.x>> \o FieldDims,
                   coords |-> table.rows,
                   data |-> [k \in 1..Len(table.rows) |->
                                IF k <= Len(files) THEN GetItemOp(h, o, k - 1).val[1]
                                ELSE junk],
                   attrs |-> {}])]

\* o.to_xarray(), by the class of o
ToXarrayOp(h, o, junk) ==
    IF IsCombined(h, o) THEN AbstractToXarray(h, o, junk) ELSE DriveToXarray(h, o)

\* o.to_xarray()
ToXarray(o, junk) ==
    LET out == ToXarrayOp(heap, o, junk)
    IN  /\ it = NoIter
        /\ IsDrive(heap, o) \/ IsCombined(heap, o)
        /\ heap' = HeapAfterStepFiles(heap, o)
        /\ res' = [op |-> "to_xarray", kind |-> out.kind, val |-> <<out.array>>]
        /\ UNCHANGED <<nrows, nfiles, it, disk, ra>>

\* the variables whose drives are concatenated: the members of a combined
\* drive are drives that no later step rebinds
XarrayOperands == Slots \ {PVar}

NextXarray ==
    \/ \E d \in LiveDirs : AddRow(d)
    \/ \E d \in LiveDirs : AddFile(d)
    \/ \E a \in XarrayOperands, b \in XarrayOperands : Lshift(a, b)
    \/ \E o \in 1..Cardinality(Dirs), cb \in BackendCallbacks : RegisterCallback(o, cb)
    \/ \E o \in Slots, junk \in JunkFields : ToXarray(o, junk)

\* export: drives and combined drives are exported while the simulation
\* writes rows and snapshot files
SpecXarray == Init /\ [][NextXarray]_vars

---------------------------------------------------------------------------
(* Export to xarray: C24 - C26 *)

\* C24 as stated: for a drive with more than one snapshot file the leading
\* axis of to_xarray is named after table.x, as long as the list of
\* snapshot files, and its coordinate is the x column of the table, also
\* when the number of snapshot files differs from the number of rows
C24_Stated ==
    [][\A o \in Slots, junk \in JunkFields :
        (res'.op = "to_xarray" /\ ToXarray(o, junk) /\ Len(StepFiles(heap, o)) > 1) =>
            /\ res'.kind = "ok"
            /\ res'.val[1].dims[1] = Table(heap, o).x
            /\ Len(res'.val[1].data) = Len(StepFiles(heap, o))
            /\ res'.val[1].coords = Table(heap, o).rows]_vars

\* a drive with more rows than snapshot files, of which it has more than
\* one, has been exported
C24_Reached ==
    /\ res.op = "to_xarray" /\ res.kind = "ok"
    /\ IsCombined(heap, CVar)
    /\ Len(StepFiles(heap, CVar)) > 1
    /\ Len(res.val[1].data) > Len(StepFiles(heap, CVar))

\* C25: for a drive with exactly one snapshot file to_xarray returns the
\* data and the dimensions of self[0].to_xarray(), without a leading axis
\* for the independent variable
C25_SingleSnapshot ==
    [][\A o \in Slots, junk \in JunkFields :
        (res'.op = "to_xarray" /\ ToXarray(o, junk) /\ Len(StepFiles(heap, o)) = 1) =>
            LET single == FieldToXarray(GetItemOp(heap, o, 0).val[1])
            IN  /\ res'.kind = "ok"
                /\ res'.val[1].data = single.data
                /\ res'.val[1].dims = single.dims
                /\ res'.val[1].dims[1] # Table(heap, o).x]_vars

\* a drive with one snapshot file, two rows and a callback has been exported
C25_Witness ==
    /\ res.op = "to_xarray" /\ res.kind = "ok"
    /\ IsDrive(heap, PVar)
    /\ heap[PVar].callbacks # <<>>
    /\ Len(StepFiles(heap, PVar)) = 1
    /\ N(heap, PVar) = 2
    /\ res.val[1].data = <<GetItemOp(heap, PVar, 0).val[1]>>

\* C26 as stated: the attributes of the array to_xarray returns hold the
\* items of drive.info and the attributes Field.to_xarray gives a snapshot,
\* for drives of one and of several snapshots
C26_Stated ==
    [][\A o \in Slots, junk \in JunkFields :
        (res'.op = "to_xarray" /\ ToXarray(o, junk) /\ res'.kind = "ok") =>
            {"info", "field"} \subseteq res'.val[1].attrs]_vars

\* a combined drive with as many snapshot files as rows has been exported
C26_Reached ==
    /\ res.op = "to_xarray" /\ res.kind = "ok"
    /\ IsCombined(heap, CVar)
    /\ Len(StepFiles(heap, CVar)) = N(heap, CVar)
    /\ "info" \in res.val[1].attrs

---------------------------------------------------------------------------
(* Rejected assignments to x: C27 *)

\* C27: an assignment to drive.x that raises ValueError leaves the drive as
\* it was: x keeps its value, and so does every other drive, for single
\* and combined drives
C27_Rejected ==
    [][\A o \in Slots, value \in XValues :
        (res'.op = "setx" /\ res'.kind = "ValueError" /\ SetX(o, value)) =>
            /\ heap'[o].x = heap[o].x
            /\ heap'[o].x # value
            /\ \A j \in Slots : j # o => heap'[j] = heap[j]]_vars

\* assignments of an unknown column to a single drive whose x had been
\* changed to 'mx', and to a combined drive, have been rejected
C27_Witness ==
    /\ res.op = "setx" /\ res.kind = "ValueError"
    /\ \E i \in Slots : IsDrive(heap, i) /\ heap[i].x = "mx"
    /\ IsCombined(heap, CVar)
    /\ HasX(heap[CVar])

---------------------------------------------------------------------------
(* A combined drive while its members grow: C28 *)

\* C28 as stated: the snapshot-file list of a combined drive is at every
\* moment the concatenation, in member order, of the current snapshot-file
\* lists of its members, and its n the sum of the current row counts of its
\* members, also when files and rows are added to the directory of a member
\* after the combined drive was constructed or first read
C28_Stated ==
    \A i \in Slots :
        IsCombined(heap, i) =>
            /\ StepFiles(heap, i) = ReduceStepFiles(heap, heap[i].drives, 1)
            /\ N(heap, i) = SumRows(heap, heap[i].drives)

\* the simulation has written a row and a snapshot file into the directory
\* of a member after the combined drive was constructed and its
\* snapshot-file list read
C28_Reached ==
    /\ IsCombined(heap, CVar)
    /\ heap[CVar].cached_step_files # <<>>
    /\ Len(heap[CVar].cached_step_files[1]) < SumFiles(heap, heap[CVar].drives)
    /\ N(heap, CVar) < SumRows(heap, heap[CVar].drives)

---------------------------------------------------------------------------
(* Selection of a snapshot for holoviews *)

\* the drive directories plotted: the TimeDriver run, the MinDriver run and
\* the HysteresisDriver run of the sample
HvDirs == {0, 1, 2}

\* rows and snapshot files of the finished runs: the MinDriver run has one
\* step, the others three
HvSteps == [d \in HvDirs |-> IF Driver(d) = "MinDriver" THEN 1 ELSE 3]

\* the applied field of a hysteresis loop goes up and comes back
Sweep == <<1, 2, 1>>

\* self.table.data[x] at row k of drive-d: time and iteration grow with the
\* step, the applied field follows the sweep
ColumnValue(d, x, k) == IF x = "B_hysteresis" THEN Sweep[k] ELSE k

\* AbstractDrive._hv_key_dims: the key dimensions of the field, and self.x
\* when the table has more than one row
HvKeyDims(h, o) ==
    IF N(h, o) > 1 THEN {"x", "y", "z", "vdims"} \cup {h[o].x}
    ELSE {"x", "y", "z", "vdims"}

\* the rows of the table whose x equals value, in table order
Matching(h, o, value) ==
    SelectSeq([k \in 1..N(h, o) |-> k],
              LAMBDA k : ColumnValue(h[o].dir, h[o].x, k) = value)

\* AbstractDrive._hv_data_selection(**kwargs): with x a key dimension the
\* snapshot of the first row whose x equals the value given is selected
\* (.index[0]: IndexError when no row matches), the last snapshot otherwise
HvDataSelection(h, o, kwargs) ==
    IF h[o].x \in HvKeyDims(h, o)
    THEN IF kwargs = <<>> THEN [kind |-> "NotImplementedError", val |-> <<>>]
         ELSE IF Matching(h, o, kwargs[1]) = <<>> THEN [kind |-> "IndexError", val |-> <<>>]
         ELSE GetItemOp(h, o, Matching(h, o, kwargs[1])[1] - 1)
    ELSE GetItemOp(h, o, -1)

\* the finished runs of the sample; no drive has been opened
InitHv ==
    /\ nrows = HvSteps
    /\ nfiles = HvSteps
    /\ heap = [i \in Slots |-> NoneObj]
    /\ res = Result("init", "ok")
    /\ disk = SampleDisk
    /\ ra = NoAnalysis
    /\ it = NoIter

\* o._hv_data_selection(**kwargs), as holoviews calls it for a frame
HvSelect(o, kwargs) ==
    LET out == HvDataSelection(heap, o, kwargs)
    IN  /\ it = NoIter
        /\ IsDrive(heap, o)
        /\ heap' = HeapAfterStepFiles(heap, o)
        /\ res' = [op |-> "hv", kind |-> out.kind, val |-> out.val]
        /\ UNCHANGED <<nrows, nfiles, it, disk, ra>>

\* the values holoviews passes for x: none, or a value of the column
HvKwargs == {<<>>} \cup {<<v>> : v \in 1..Len(Sweep)}

NextHv ==
    \/ \E v \in Slots, d \in HvDirs : Open(v, d)
    \/ \E o \in Slots, cb \in BackendCallbacks : RegisterCallback(o, cb)
    \/ \E o \in Slots, kwargs \in HvKwargs : HvSelect(o, kwargs)

\* plotting: drives are opened and holoviews selects snapshots from them
SpecHv == InitHv /\ [][NextHv]_vars

---------------------------------------------------------------------------
(* Selection by the independent variable: C29 *)

\* the snapshot of row k of a drive
Snapshot(h, o, k) == GetItemOp(h, o, k - 1).val

\* C29 as stated: with x a key dimension, selecting the value stored in row
\* k returns snapshot k, for every row k, also when values of the column
\* repeat; without a value the selection raises NotImplementedError
C29_Stated ==
    [][\A o \in Slots, kwargs \in HvKwargs :
        (res'.op = "hv" /\ HvSelect(o, kwargs) /\ heap[o].x \in HvKeyDims(heap, o)) =>
            IF kwargs = <<>> THEN res'.kind = "NotImplementedError"
            ELSE \A k \in 1..N(heap, o) :
                    ColumnValue(heap[o].dir, heap[o].x, k) = kwargs[1] =>
                        res'.kind = "ok" /\ res'.val = Snapshot(heap, o, k)]_vars

\* a value that two rows of a hysteresis loop hold has been selected
C29_Reached ==
    /\ res.op = "hv" /\ res.kind = "ok"
    /\ \E i \in Slots :
          /\ IsDrive(heap, i)
          /\ heap[i].x = "B_hysteresis"
          /\ res.val = Snapshot(heap, i, 1)
          /\ Len(Matching(heap, i, Sweep[1])) > 1

---------------------------------------------------------------------------
(* RingdownAnalysis *)

\* the variable that holds the drive analysed: data[0], the TimeDriver run
DataVar == 1

\* the subregions analysed
Subregions == {"both", "bottom", "top"}

\* what an FFT analysis computes is determined by the subregion and by the
\* snapshots of the drive at the time of the analysis
Spectrum(subregion, h) == [subregion |-> subregion, files |-> StepFiles(h, DataVar)]

\* select_subregion / the first lines of fft_analysis: the drive with the
\* orientation callback is exported and the initial field subtracted
SelectSubregion(a, subregion, h) ==
    LET xarr == DriveToXarray(h, DataVar)
    IN  IF xarr.kind # "ok" THEN [kind |-> xarr.kind, ra |-> a]
        ELSE [kind |-> "ok", ra |-> [a EXCEPT !.diff_xarr = <<Spectrum(subregion, h)>>]]

\* fft_analysis1(subregion), and fft_analysis() for the whole system:
\* diff_xarr is stored first; the export of a single snapshot has no axis
\* 't' (KeyError at self.diff_xarr["t"]); then freq, power_spa, power_phase
\* and power_ave are stored
FftAnalysis(a, subregion, h) ==
    LET sel == SelectSubregion(a, subregion, h)
    IN  IF sel.kind # "ok" THEN sel
        ELSE IF Len(StepFiles(h, DataVar)) = 1 THEN [kind |-> "KeyError", ra |-> sel.ra]
        ELSE [kind |-> "ok",
              ra |-> [sel.ra EXCEPT !.freq = sel.ra.diff_xarr,
                                    !.power_spa = sel.ra.diff_xarr,
                                    !.power_phase = sel.ra.diff_xarr,
                                    !.power_ave = sel.ra.diff_xarr]]

\* find_peaks: scipy.signal.find_peaks on the stored power_ave
FindPeaks(a) ==
    IF a.power_ave = <<>> \/ a.freq = <<>> THEN [kind |-> "ValueError", ra |-> a]
    ELSE [kind |-> "ok", ra |-> [a EXCEPT !.peaks = a.power_ave]]

\* plot_peaks: for every peak index, self.freq[i], self.power_spa[i] and
\* self.power_phase[i] are plotted; val: the spectrum the indices were found
\* in and the spectrum they are applied to
PlotPeaks(a) ==
    IF a.peaks = <<>> THEN [kind |-> "ValueError", val |-> <<>>]
    ELSE IF a.power_spa = <<>> \/ a.power_phase = <<>> \/ a.freq = <<>>
    THEN [kind |-> "ValueError", val |-> <<>>]
    ELSE [kind |-> "ok", val |-> <<a.peaks[1], a.power_spa[1]>>]

\* inverse_fft: self.freq[self.peaks] selects the band that is transformed
\* back
InverseFft(a) ==
    IF a.peaks = <<>> \/ a.freq = <<>> THEN [kind |-> "ValueError", val |-> <<>>]
    ELSE [kind |-> "ok", val |-> <<a.peaks[1], a.freq[1]>>]

\* ra.fft_analysis(): the analysis of the whole system
DoFftAnalysis ==
    LET out == FftAnalysis(ra, "both", heap)
    IN  /\ it = NoIter
        /\ ra' = out.ra
        /\ heap' = HeapAfterStepFiles(heap, DataVar)
        /\ res' = [op |-> "fft_analysis", kind |-> out.kind, val |-> <<>>]
        /\ UNCHANGED <<nrows, nfiles, it, disk>>

\* ra.fft_analysis1(subregion)
DoFftAnalysis1(subregion) ==
    LET out == FftAnalysis(ra, subregion, heap)
    IN  /\ it = NoIter
        /\ ra' = out.ra
        /\ heap' = HeapAfterStepFiles(heap, DataVar)
        /\ res' = [op |-> "fft_analysis1", kind |-> out.kind, val |-> <<>>]
        /\ UNCHANGED <<nrows, nfiles, it, disk>>

\* ra.find_peaks()
DoFindPeaks ==
    LET out == FindPeaks(ra)
    IN  /\ it = NoIter
        /\ ra' = out.ra
        /\ res' = [op |-> "find_peaks", kind |-> out.kind, val |-> <<>>]
        /\ UNCHANGED <<nrows, nfiles, heap, it, disk>>

\* ra.plot_peaks()
DoPlotPeaks ==
    LET out == PlotPeaks(ra)
    IN  /\ it = NoIter
        /\ res' = [op |-> "plot_peaks", kind |-> out.kind, val |-> out.val]
        /\ UNCHANGED <<nrows, nfiles, heap, it, disk, ra>>

\* ra.inverse_fft()
DoInverseFft ==
    LET out == InverseFft(ra)
    IN  /\ it = NoIter
        /\ res' = [op |-> "inverse_fft", kind |-> out.kind, val |-> out.val]
        /\ UNCHANGED <<nrows, nfiles, heap, it, disk, ra>>

NextRingdown ==
    \/ \E d \in LiveDirs : AddRow(d)
    \/ \E d \in LiveDirs : AddFile(d)
    \/ DoFftAnalysis
    \/ \E subregion \in Subregions : DoFftAnalysis1(subregion)
    \/ DoFindPeaks
    \/ DoPlotPeaks
    \/ DoInverseFft

\* ringdown analysis: the steps of the analysis are called in any order
\* while the simulation writes rows and snapshot files
SpecRingdown == Init /\ [][NextRingdown]_vars

---------------------------------------------------------------------------
(* The steps of the ringdown analysis: C30 *)

\* peaks is None or was found in the stored power_ave and freq
C30_Current ==
    ra.peaks = <<>> \/ (ra.power_ave = ra.peaks /\ ra.freq = ra.peaks)

\* find_peaks, plot_peaks and inverse_fft raise ValueError when the step
\* they need has not run
C30_Prerequisite ==
    /\ (res'.op = "find_peaks" /\ DoFindPeaks /\ ra.power_ave = <<>>) =>
          res'.kind = "ValueError"
    /\ (res'.op = "plot_peaks" /\ DoPlotPeaks /\ (ra.peaks = <<>> \/ ra.power_spa = <<>>)) =>
          res'.kind = "ValueError"
    /\ (res'.op = "inverse_fft" /\ DoInverseFft /\ (ra.peaks = <<>> \/ ra.freq = <<>>)) =>
          res'.kind = "ValueError"

\* the peak indices a step uses were found in the spectrum it applies them to
C30_NoStalePeaks ==
    (res.op \in {"plot_peaks", "inverse_fft"} /\ res.kind = "ok") =>
        res.val[1] = res.val[2]

\* C30 as stated: after any sequence of fft_analysis, fft_analysis1,
\* find_peaks, plot_peaks and inverse_fft, peaks is None or was computed
\* from the stored power_ave and freq, the steps raise ValueError when
\* their prerequisite has not run, and no step uses peak indices found in
\* the spectrum of an earlier analysis
C30_Stated == [](C30_Current /\ C30_NoStalePeaks) /\ [][C30_Prerequisite]_vars

\* peaks found in the spectrum of the whole system have been plotted after
\* a subregion was analysed
C30_Reached ==
    /\ res.op = "plot_peaks" /\ res.kind = "ok"
    /\ res.val[1].subregion = "both"
    /\ res.val[2].subregion = "top"

====
